---- MODULE Spec2Model ----
(***************************************************************************)
(* yaquest: a fluent, promise-style HTTP request builder.                  *)
(*                                                                         *)
(* The model covers both revisions of the library found in the source     *)
(* tree: src/yaquest.js (per-execution ctx, query support) and             *)
(* src/unnamed/part_000 (timer handle kept on the Request, reflect(),      *)
(* createError).  The variable rev says which revision a behaviour runs.   *)
(*                                                                         *)
(* JavaScript strings are modelled as sequences of tokens, so that         *)
(* concatenation, URL formatting and number formatting are computed.       *)
(* The event loop is modelled by one action per callback; promise          *)
(* reactions are microtasks (variable jobs) that run before any other      *)
(* callback.                                                               *)
(***************************************************************************)
EXTENDS Integers, Sequences, FiniteSets, TLC

VARIABLES
  rev,      \* "yaquest" (src/yaquest.js) or "part_000" (src/unnamed/part_000)
  this,     \* the Request object (the descriptor)
  server,   \* what the remote endpoint answers: status code, gzip, body chunks
  execs,    \* one record per call of _execute(): ctx, req, res, promise
  jobs,     \* microtask queue: executions whose then/catch continuation is due
  calls,    \* number of builder calls made so far
  awaited,  \* number of then()/catch()/reflect() calls made so far
  ret,      \* what the last API call returned or threw
  uncaught  \* TRUE once an 'error' event found no listener (process dies)

vars == <<rev, this, server, execs, jobs, calls, awaited, ret, uncaught>>

----------------------------------------------------------------------------
(* Bounds of the model *)

MaxCalls == 2     \* builder calls per behaviour
MaxExec == 2      \* executions started from the Request
MaxChunks == 2    \* 'data' chunks of a response body

----------------------------------------------------------------------------
(* JavaScript values *)

Undefined == "undefined"
Null == "null"

Revisions == {"yaquest", "part_000"}

Methods == {"GET", "POST", "PUT", "PATCH", "DELETE"}

\* Number -> decimal string, as a template literal or a header value renders it.
RECURSIVE DecStr(_)
DecStr(n) ==
  LET digit(d) == CASE d = 0 -> "0" [] d = 1 -> "1" [] d = 2 -> "2"
                    [] d = 3 -> "3" [] d = 4 -> "4" [] d = 5 -> "5"
                    [] d = 6 -> "6" [] d = 7 -> "7" [] d = 8 -> "8"
                    [] OTHER -> "9"
  IN IF n < 10 THEN <<digit(n)>> ELSE DecStr(n \div 10) \o <<digit(n % 10)>>

\* A value handed to send() or held in res.body: undefined/null, a Buffer,
\* a JSON value of the grammar  v ::= digits | "[" "]" | "[" v "]"
\* (depth = number of enclosing arrays, num = the number, -1 for none),
\* or a cyclic object.
UndefinedVal == [kind |-> "undefined", bytes |-> <<>>, depth |-> 0, num |-> 0]
NullVal == [kind |-> "null", bytes |-> <<>>, depth |-> 0, num |-> 0]
CyclicVal == [kind |-> "cyclic", bytes |-> <<>>, depth |-> 0, num |-> 0]
BufferVal(b) == [kind |-> "buffer", bytes |-> b, depth |-> 0, num |-> 0]
JsonVal(d, n) == [kind |-> "json", bytes |-> <<>>, depth |-> d, num |-> n]

ThrowVal == [kind |-> "throw", bytes |-> <<>>, depth |-> 0, num |-> 0]

RECURSIVE Repeat(_, _)
Repeat(tok, n) == IF n = 0 THEN <<>> ELSE <<tok>> \o Repeat(tok, n - 1)

\* JSON.stringify followed by new Buffer(text): the bytes of the text.
\* JSON.stringify throws on a cyclic structure; for undefined it returns
\* undefined and new Buffer(undefined) throws.
JSONStringify(v) ==
  IF v.kind = "json"
  THEN BufferVal(Repeat("[", v.depth)
                 \o (IF v.num < 0 THEN <<>> ELSE DecStr(v.num))
                 \o Repeat("]", v.depth))
  ELSE IF v.kind = "null" THEN BufferVal(<<"null">>)
  ELSE ThrowVal

IsDigit(c) == c \in {"0", "1", "2", "3", "4", "5", "6", "7", "8", "9"}

DigitVal(c) ==
  CASE c = "0" -> 0 [] c = "1" -> 1 [] c = "2" -> 2 [] c = "3" -> 3
    [] c = "4" -> 4 [] c = "5" -> 5 [] c = "6" -> 6 [] c = "7" -> 7
    [] c = "8" -> 8 [] OTHER -> 9

RECURSIVE NumVal(_)
NumVal(s) ==
  IF s = <<>> THEN 0 ELSE 10 * NumVal(SubSeq(s, 1, Len(s) - 1)) + DigitVal(s[Len(s)])

\* JSON.parse of the text of the bytes b: ThrowVal on a syntax error.
RECURSIVE JSONParse(_)
JSONParse(b) ==
  IF b = <<>> THEN ThrowVal
  ELSE IF \A k \in 1..Len(b) : IsDigit(b[k])
  THEN (IF Len(b) > 1 /\ b[1] = "0" THEN ThrowVal ELSE JsonVal(0, NumVal(b)))
  ELSE IF Len(b) >= 2 /\ b[1] = "[" /\ b[Len(b)] = "]"
  THEN (IF Len(b) = 2 THEN JsonVal(1, -1)
        ELSE LET inner == JSONParse(SubSeq(b, 2, Len(b) - 1))
             IN IF inner.kind = "json" THEN JsonVal(inner.depth + 1, inner.num)
                ELSE ThrowVal)
  ELSE ThrowVal

----------------------------------------------------------------------------
(* Inputs *)

\* URL.parse(url) of the URLs a caller passes to url().
ParsedUrls ==
  { [protocol |-> "http:", hostname |-> "localhost", port |-> "56247",
     pathname |-> <<"/foo">>, search |-> <<>>],
    [protocol |-> "https:", hostname |-> "example.com", port |-> Null,
     pathname |-> <<"/bar">>, search |-> <<"?", "a=1">>] }

Timeouts == {0, 100}
\* Property names every plain object inherits from Object.prototype: for these
\* this._query[name] is truthy (a function) before any query() call.
ObjectPrototypeNames == {"constructor"}
QueryNames == {"q1", "q2"} \cup ObjectPrototypeNames
QueryValues == {"v1", "v2"}
SetHeaders == {<<"x-eggs", <<"spam">>>>, <<"Content-Type", <<"text/plain">>>>,
               <<"Content-Length", <<"9">>>>}
SendInputs ==
  {BufferVal(<<"1", "]">>), JsonVal(1, 1), JsonVal(0, 7), CyclicVal, UndefinedVal}
Agents == {"keepAliveAgent"}
Credentials == {<<"user", "secret">>}

----------------------------------------------------------------------------
(* The Request: constructor and builder methods *)

\* new Request()
NewRequest ==
  [ _body |-> NullVal,
    _binary |-> FALSE,
    _timeout |-> 30000,
    _timeoutHandle |-> 0,
    _query |-> <<>>,
    headers |-> ("Accept-Encoding" :> <<"gzip">>),
    protocol |-> Undefined,
    hostname |-> Undefined,
    port |-> Undefined,
    path |-> <<Undefined>>,
    method |-> Undefined,
    agent |-> Undefined ]

url(t, u) ==
  [t EXCEPT !.protocol = u.protocol, !.hostname = u.hostname,
            !.port = u.port, !.path = u.pathname \o u.search]

setMethod(t, m) == [t EXCEPT !.method = m]

binary(t) == [t EXCEPT !._binary = TRUE]

\* Mutant of send: the Content-Type is written before the body is encoded,
\* so a failed call leaves it changed.
sendAssignsFirst(t, body) ==
  IF body.kind # "buffer" /\ JSONStringify(body).kind = "throw"
  THEN [t EXCEPT !.headers = ("Content-Type" :> <<"application/json">>) @@ t.headers]
  ELSE LET stored == IF body.kind = "buffer" THEN body ELSE JSONStringify(body)
           ctype == IF body.kind = "buffer" THEN <<"application/octet-stream">>
                    ELSE <<"application/json">>
       IN [t EXCEPT !._body = stored,
                    !.headers = ("Content-Length" :> DecStr(Len(stored.bytes)))
                                @@ ("Content-Type" :> ctype) @@ t.headers]

\* Mutant of send: headers already present are kept.
sendKeepsHeaders(t, body) ==
  IF body.kind # "buffer" /\ JSONStringify(body).kind = "throw" THEN t
  ELSE LET stored == IF body.kind = "buffer" THEN body ELSE JSONStringify(body)
           ctype == IF body.kind = "buffer" THEN <<"application/octet-stream">>
                    ELSE <<"application/json">>
       IN [t EXCEPT !._body = stored,
                    !.headers = t.headers
                                @@ ("Content-Length" :> DecStr(Len(stored.bytes)))
                                @@ ("Content-Type" :> ctype)]

\* send(body): the record after the call; ThrowVal-kinded body means the call
\* threw inside JSON.stringify / new Buffer, before any assignment.
sendThrows(body) ==
  body.kind # "buffer" /\ JSONStringify(body).kind = "throw"

send(t, body) ==
  IF sendThrows(body) THEN t
  ELSE LET stored == IF body.kind = "buffer" THEN body ELSE JSONStringify(body)
           ctype == IF body.kind = "buffer" THEN <<"application/octet-stream">>
                    ELSE <<"application/json">>
       IN [t EXCEPT !._body = stored,
                    !.headers = ("Content-Length" :> DecStr(Len(stored.bytes)))
                                @@ ("Content-Type" :> ctype) @@ t.headers]

set(t, headerName, header) ==
  [t EXCEPT !.headers = (headerName :> header) @@ t.headers]

\* query(name, value) throws when this._query[name] is truthy and not an
\* array: this._query is a plain object ({}), so for a name inherited from
\* Object.prototype the lookup yields a function, which has no push.
queryThrows(t, name) == name \in ObjectPrototypeNames

\* query(name, value): this._query[name] = this._query[name] || []; push.
\* The object keeps its keys in insertion order: a sequence of entries.  An
\* entry is an array of values, or (inherited) the function the assignment
\* copied from the prototype before push threw.
query(t, name, value) ==
  IF \E k \in 1..Len(t._query) : t._query[k].name = name
  THEN [t EXCEPT !._query =
          [k \in 1..Len(t._query) |->
             IF t._query[k].name = name /\ ~t._query[k].inherited
             THEN [t._query[k] EXCEPT !.values = Append(@, value)]
             ELSE t._query[k]]]
  ELSE [t EXCEPT !._query =
          Append(@, [name |-> name,
                     values |-> IF queryThrows(t, name) THEN <<>> ELSE <<value>>,
                     inherited |-> queryThrows(t, name)])]

auth(t, username, password) ==
  [t EXCEPT !.headers =
     ("Authorization" :> <<"Basic ", "base64(", username, ":", password, ")">>)
     @@ t.headers]

timeout(t, n) == [t EXCEPT !._timeout = n]

agent(t, a) == [t EXCEPT !.agent = a]

\* URL.format({protocol, hostname, pathname}): the port is not passed, and a
\* '?' inside pathname is escaped.
EscapePath(p) == [k \in 1..Len(p) |-> IF p[k] = "?" THEN "%3F" ELSE p[k]]

\* Mutant of getUrl: the port is passed to URL.format as well.
getUrlWithPort(t) ==
  (IF t.protocol = Undefined THEN <<>> ELSE <<t.protocol, "//">>)
  \o (IF t.hostname = Undefined THEN <<>> ELSE <<t.hostname>>)
  \o (IF t.port \in {Undefined, Null} THEN <<>> ELSE <<":", t.port>>)
  \o (IF t.path = <<Undefined>> THEN <<>> ELSE EscapePath(t.path))

getUrl(t) ==
  (IF t.protocol = Undefined THEN <<>> ELSE <<t.protocol, "//">>)
  \o (IF t.hostname = Undefined THEN <<>> ELSE <<t.hostname>>)
  \o (IF t.path = <<Undefined>> THEN <<>> ELSE EscapePath(t.path))

toString(t) == <<t.method, " ">> \o getUrl(t)

----------------------------------------------------------------------------
(* Return values of API calls *)

RetThis == [kind |-> "this", str |-> <<>>]
RetPromise == [kind |-> "promise", str |-> <<>>]
RetThrow == [kind |-> "throw", str |-> <<>>]
RetString(s) == [kind |-> "string", str |-> s]

----------------------------------------------------------------------------
(* Errors *)

\* http.STATUS_CODES: the standard reason phrases (Undefined where the table
\* has no entry).
STATUS_CODES(status) ==
  CASE status = 200 -> "OK"
    [] status = 300 -> "Multiple Choices"
    [] status = 404 -> "Not Found"
    [] status = 500 -> "Internal Server Error"
    [] OTHER -> Undefined

\* The message property of the errors the transport, the response stream and
\* the gunzip transform emit.
EmittedMessage(name) ==
  CASE name = "ECONNRESET" -> <<"socket hang up">>
    [] name = "ABORTED" -> <<"aborted">>
    [] name = "Z_DATA_ERROR" -> <<"incorrect header check">>
    [] name = "Z_MEM_ERROR" -> <<"zlib: out of memory">>
    [] OTHER -> <<>>

TransportErrors == {"ECONNRESET"}
StreamErrors == {"ABORTED"}
GunzipErrors == {"Z_DATA_ERROR"}

NoErr ==
  [name |-> "none", message |-> <<>>, cause |-> Undefined,
   req |-> "unset", res |-> "unset", status |-> -1, data |-> UndefinedVal]

\* new Error(message): String(undefined) is not used, the message is ''.
NewError(message) ==
  [NoErr EXCEPT !.name = "Error",
                !.message = IF message = <<Undefined>> THEN <<>> ELSE message]

\* An error object emitted by an emitter ('error' event argument).
EmittedError(name) ==
  [NoErr EXCEPT !.name = name, !.message = EmittedMessage(name)]

\* createError(data) of part_000: error.cause = data.cause || null.
createError(message, cause) ==
  [NewError(message) EXCEPT !.cause = IF cause = Undefined THEN Null ELSE cause]

TimeoutMessage(t) ==
  <<"request ">> \o toString(t) \o <<" timed out after ">>
  \o DecStr(t._timeout) \o <<" ms">>

----------------------------------------------------------------------------
(* Executions *)

NoRes ==
  [received |-> FALSE, statusCode |-> 0, gzip |-> FALSE,
   status |-> -1, body |-> UndefinedVal, isBinary |-> Undefined]

\* queryString.encode(this._query): name=value pairs joined by '&', a name
\* with several values repeated once per value, in insertion order; a value
\* that is neither an array nor a primitive renders as name= .
RECURSIVE EncodeValues(_, _)
EncodeValues(name, vs) ==
  IF vs = <<>> THEN <<>>
  ELSE <<name, "=", vs[1]>>
       \o (IF Len(vs) > 1 THEN <<"&">> \o EncodeValues(name, Tail(vs)) ELSE <<>>)

EncodeEntry(entry) ==
  IF entry.inherited THEN <<entry.name, "=">>
  ELSE EncodeValues(entry.name, entry.values)

RECURSIVE EncodeQuery(_)
EncodeQuery(q) ==
  IF q = <<>> THEN <<>>
  ELSE EncodeEntry(q[1])
       \o (IF Len(q) > 1 THEN <<"&">> \o EncodeQuery(Tail(q)) ELSE <<>>)

\* The path of the options handed to http.request.
RequestPath(r, t) ==
  IF r = "yaquest" /\ Len(t._query) # 0
  THEN t.path \o <<"?">> \o EncodeQuery(t._query)
  ELSE t.path

\* httpOrHttps.request(opt, cb) followed by _writeBody, req.url = and
\* req.end(): the ClientRequest.  Node fills in method, host and path when
\* the options leave them undefined.
NewClientRequest(r, t) ==
  [ module |-> IF t.protocol = "https:" THEN "https" ELSE "http",
    method |-> IF t.method = Undefined THEN "GET" ELSE t.method,
    hostname |-> IF t.hostname = Undefined THEN "localhost" ELSE t.hostname,
    port |-> t.port,
    path |-> IF RequestPath(r, t) = <<Undefined>> THEN <<"/">>
             ELSE RequestPath(r, t),
    headers |-> t.headers,
    agent |-> t.agent,
    written |-> IF t._body.kind # "null" THEN t._body ELSE NullVal,
    url |-> getUrl(t),
    ended |-> TRUE,
    aborted |-> FALSE ]

\* A promise of the chain reflect() builds on the promise of _execute():
\* its state and its value, which is the response ("res"), the error ("err")
\* or a PromiseInspection holding one of them.
NoPromise ==
  [state |-> "pending", inspection |-> FALSE, _isFulfilled |-> FALSE,
   _value |-> "none"]

\* new PromiseInspection(isFulfilled, value), as the value of a fulfilled promise
PromiseInspection(isFulfilled, value) ==
  [state |-> "fulfilled", inspection |-> TRUE, _isFulfilled |-> isFulfilled,
   _value |-> value]

isFulfilled(p) == p._isFulfilled
isRejected(p) == ~p._isFulfilled
value(p) == p._value
reason(p) == p._value

\* Mutant of reflectCatch: the rejection handler rethrows.
reflectCatchRethrows(p) == p

\* .then(value => new PromiseInspection(true, value))
reflectThen(p) ==
  IF p.state = "fulfilled" THEN PromiseInspection(TRUE, p._value) ELSE p

\* .catch(err => new PromiseInspection(false, err))
reflectCatch(p) ==
  IF p.state = "rejected" THEN PromiseInspection(FALSE, p._value) ELSE p

reflect(p) == reflectCatch(reflectThen(p))

\* Mutant of ArmsTimer: the timer is armed whatever the timeout is.
ArmsTimerAlways(t) == TRUE

\* _registerTimeout: a timer is armed only when this._timeout is truthy.
ArmsTimer(t) == t._timeout # 0

\* The state of one call of _execute() right after the executor has run.
\* id is the position of the execution in execs and the identity of its
\* timer handle.  timeoutHandle is ctx.timeoutHandle (src/yaquest.js only).
\* observer says what the caller holds: the promise of then()/catch()
\* ("promise") or the one of reflect() ("reflect"), whose state is reflected.
NewExecution(r, t, id) ==
  [ req |-> NewClientRequest(r, t),
    res |-> NoRes,
    listening |-> {},
    data |-> <<>>,
    ended |-> FALSE,
    timer |-> IF ArmsTimer(t) THEN "armed" ELSE "none",
    delay |-> t._timeout,
    timeoutHandle |-> IF r = "yaquest" /\ ArmsTimer(t) THEN id ELSE 0,
    promise |-> "pending",
    by |-> "none",
    err |-> NoErr,
    result |-> "pending",
    observer |-> "promise",
    reflected |-> NoPromise ]

\* Mutant of reject: a deferred without the settle-once guard.
rejectAgain(e, err, by) ==
  [e EXCEPT !.promise = "rejected", !.err = err, !.by = by]

\* resolve / reject of the promise created in _execute: a promise settles
\* once, later calls are ignored.
Settled(e) == e.promise # "pending"

reject(e, err, by) ==
  IF Settled(e) THEN e
  ELSE [e EXCEPT !.promise = "rejected", !.err = err, !.by = by]

resolve(e, by) ==
  IF Settled(e) THEN e
  ELSE [e EXCEPT !.promise = "fulfilled", !.by = by]

\* The reaction job of the promise is queued when it settles.
Enqueue(q, e, e2, i) ==
  IF ~Settled(e) /\ Settled(e2) THEN Append(q, i) ELSE q

----------------------------------------------------------------------------
(* Builder calls.  Every method returns this; none touches execs. *)

\* Synchronous code runs only when no promise reaction is pending and the
\* process is alive.
Idle == jobs = <<>> /\ ~uncaught

\* Mutant of Builder: a builder call that already opens the request.
BuilderEager(t2, r) ==
  /\ Idle
  /\ calls < MaxCalls
  /\ this' = t2
  /\ calls' = calls + 1
  /\ ret' = r
  /\ execs' = Append(execs, NewExecution(rev, t2, Len(execs) + 1))
  /\ UNCHANGED <<rev, server, jobs, awaited, uncaught>>

Builder(t2, r) ==
  /\ Idle
  /\ calls < MaxCalls
  /\ this' = t2
  /\ calls' = calls + 1
  /\ ret' = r
  /\ UNCHANGED <<rev, server, execs, jobs, awaited, uncaught>>

Url == \E u \in ParsedUrls : Builder(url(this, u), RetThis)

\* get(), post(), put(), patch(), delete()
SetMethod == \E m \in Methods : Builder(setMethod(this, m), RetThis)

Binary == Builder(binary(this), RetThis)

SendOf(b) ==
  Builder(send(this, b), IF sendThrows(b) THEN RetThrow ELSE RetThis)

Send == \E b \in SendInputs : SendOf(b)

Set == \E h \in SetHeaders : Builder(set(this, h[1], h[2]), RetThis)

QueryOf(n, v) ==
  Builder(query(this, n, v), IF queryThrows(this, n) THEN RetThrow ELSE RetThis)

Query ==
  /\ rev = "yaquest"
  /\ \E n \in QueryNames, v \in QueryValues : QueryOf(n, v)

Auth == \E c \in Credentials : Builder(auth(this, c[1], c[2]), RetThis)

Timeout == \E n \in Timeouts : Builder(timeout(this, n), RetThis)

Agent == \E a \in Agents : Builder(agent(this, a), RetThis)

ToStringCall == Builder(this, RetString(toString(this)))

----------------------------------------------------------------------------
(* then(), catch(), reflect(): each calls _execute() *)

\* _execute(): the executor of new Promise runs synchronously: it opens the
\* request, writes the body, arms the timer, registers the error listener
\* and ends the request.  In part_000 the timer handle is stored on this.
\* Mutant of execute: the query string is appended to this._opt itself
\* instead of a copy.
executeInPlace(via) ==
  LET id == Len(execs) + 1
  IN /\ execs' = Append(execs, [NewExecution(rev, this, id) EXCEPT !.observer = via])
     /\ this' = [this EXCEPT !.path = RequestPath(rev, this)]

execute(via) ==
  LET id == Len(execs) + 1
  IN /\ execs' = Append(execs, [NewExecution(rev, this, id) EXCEPT !.observer = via])
     /\ this' = IF rev = "part_000" /\ ArmsTimer(this)
                THEN [this EXCEPT !._timeoutHandle = id] ELSE this

Await(via) ==
  /\ Idle
  /\ Len(execs) < MaxExec
  /\ execute(via)
  /\ awaited' = awaited + 1
  /\ ret' = RetPromise
  /\ UNCHANGED <<rev, server, jobs, calls, uncaught>>

Then == Await("promise")

Catch == Await("promise")

Reflect == rev = "part_000" /\ Await("reflect")

----------------------------------------------------------------------------
(* Callbacks of one execution *)

\* Replace execution i by e2, queueing its promise reaction if it settled.
Update(i, e2) ==
  /\ execs' = [execs EXCEPT ![i] = e2]
  /\ jobs' = Enqueue(jobs, execs[i], e2, i)

\* Mutant of onRequestError: a fresh error that drops the emitted one.
onRequestErrorNoCause(r, e, name) ==
  reject(e, NewError(<<"request error">>), "reqError")

\* Mutant of onRequestError: the listener also aborts the request.
onRequestErrorAborts(r, e, name) ==
  reject([e EXCEPT !.req.aborted = TRUE],
         IF r = "yaquest" THEN EmittedError(name)
         ELSE createError(<<"request error">>, name), "reqError")

\* req 'error' listener: handleError(ctx.req, ctx.reject) in src/yaquest.js,
\* req.on('error', ...) with createError in part_000.
onRequestError(r, e, name) ==
  reject(e, IF r = "yaquest" THEN EmittedError(name)
            ELSE createError(<<"request error">>, name), "reqError")

ReqErrorOf(i, name) ==
  /\ Idle
  /\ Update(i, onRequestError(rev, execs[i], name))
  /\ UNCHANGED <<rev, this, server, calls, awaited, ret, uncaught>>

ReqError == \E i \in DOMAIN execs, name \in TransportErrors : ReqErrorOf(i, name)

\* Mutant of Listeners: no error listener on the gunzip transform.
ListenersNoGunzip(r, gzip, throws) ==
  IF r = "yaquest"
  THEN {"res.error"} \cup (IF gzip /\ throws THEN {} ELSE {"data", "end"})
  ELSE IF gzip /\ throws THEN {} ELSE {"data", "end"}

\* The listeners _onResponse registers before the point where it throws (if
\* it does): zlib.createGunzip() is the call that can fail.
Listeners(r, gzip, throws) ==
  IF r = "yaquest"
  THEN {"res.error"}
       \cup (IF gzip /\ throws THEN {}
             ELSE IF gzip THEN {"gunzip.error", "data", "end"}
             ELSE {"data", "end"})
  ELSE IF gzip /\ throws THEN {} ELSE {"data", "end"}

\* The callback passed to http.request: ctx.res = response, then
\* _onResponse inside try/catch.
onResponse(r, e, srv, throws) ==
  LET e1 == [e EXCEPT !.res = [NoRes EXCEPT !.received = TRUE,
                                            !.statusCode = srv.statusCode,
                                            !.gzip = srv.gzip],
                      !.listening = Listeners(r, srv.gzip, throws)]
  IN IF srv.gzip /\ throws
     THEN reject(e1, IF r = "yaquest" THEN EmittedError("Z_MEM_ERROR")
                     ELSE createError(<<"something went wrong with the response">>,
                                      "Z_MEM_ERROR"), "thrown")
     ELSE e1

Response ==
  \E i \in DOMAIN execs, throws \in BOOLEAN :
    /\ Idle
    /\ ~execs[i].res.received
    /\ throws => server.gzip
    /\ Update(i, onResponse(rev, execs[i], server, throws))
    /\ UNCHANGED <<rev, this, server, calls, awaited, ret, uncaught>>

\* resStream 'data' listener: data.push(chunk).
onData(e, chunk) == [e EXCEPT !.data = Append(@, chunk)]

Data ==
  \E i \in DOMAIN execs :
    /\ Idle
    /\ "data" \in execs[i].listening
    /\ ~execs[i].ended
    /\ Len(execs[i].data) < Len(server.chunks)
    /\ Update(i, onData(execs[i], server.chunks[Len(execs[i].data) + 1]))
    /\ UNCHANGED <<rev, this, server, calls, awaited, ret, uncaught>>

\* Buffer.concat(data)
RECURSIVE Concat(_)
Concat(chunks) == IF chunks = <<>> THEN <<>> ELSE chunks[1] \o Concat(Tail(chunks))

\* res.body after the opportunistic JSON.parse of the 'end' listener.
DecodeBody(isBinary, bytes) ==
  IF ~isBinary /\ Len(bytes) # 0
  THEN (IF JSONParse(bytes).kind = "throw" THEN BufferVal(bytes)
        ELSE JSONParse(bytes))
  ELSE BufferVal(bytes)

\* res.status = res.statusCode || 500 (statusCode 0: none reported)
StatusOf(statusCode) == IF statusCode = 0 THEN 500 ELSE statusCode

\* Mutant of IsFailureStatus: the lower boundary off by one.
IsFailureStatusOffByOne(status) == status <= 200 \/ status >= 300

IsFailureStatus(status) == status < 200 \/ status >= 300

\* Mutant of onEnd: a JSON syntax error fails the request.
onEndStrict(r, e, t) ==
  LET status == StatusOf(e.res.statusCode)
      bytes == Concat(e.data)
      e1 == [e EXCEPT !.res.body = DecodeBody(t._binary, bytes),
                      !.res.status = status,
                      !.res.isBinary = IF t._binary THEN "true" ELSE "false",
                      !.ended = TRUE]
  IN IF IsFailureStatus(status)
        \/ (~t._binary /\ Len(bytes) # 0 /\ JSONParse(bytes).kind = "throw")
     THEN reject(e1, NewError(<<STATUS_CODES(status)>>), "end")
     ELSE resolve(e1, "end")

\* resStream 'end' listener.
onEnd(r, e, t) ==
  LET status == StatusOf(e.res.statusCode)
      e1 == [e EXCEPT !.res.body = DecodeBody(t._binary, Concat(e.data)),
                      !.res.status = status,
                      !.res.isBinary = IF t._binary THEN "true" ELSE "false",
                      !.ended = TRUE]
  IN IF IsFailureStatus(status)
     THEN reject(e1, IF r = "yaquest" THEN NewError(<<STATUS_CODES(status)>>)
                     ELSE createError(<<STATUS_CODES(status)>>, Undefined), "end")
     ELSE resolve(e1, "end")

End ==
  \E i \in DOMAIN execs :
    /\ Idle
    /\ "end" \in execs[i].listening
    /\ ~execs[i].ended
    /\ Update(i, onEnd(rev, execs[i], this))
    /\ UNCHANGED <<rev, this, server, calls, awaited, ret, uncaught>>

\* An 'error' event on an emitter: with a listener the promise is rejected
\* with the emitted error; without one the emit throws and nothing catches it.
onStreamError(e, listener, name, by) ==
  IF listener \in e.listening THEN reject(e, EmittedError(name), by) ELSE e

StreamError(i, listener, name, by) ==
  /\ Idle
  /\ Update(i, onStreamError(execs[i], listener, name, by))
  /\ uncaught' = (listener \notin execs[i].listening)
  /\ UNCHANGED <<rev, this, server, calls, awaited, ret>>

\* 'error' on the response (IncomingMessage).
ResErrorOf(i, name) ==
  /\ execs[i].res.received
  /\ StreamError(i, "res.error", name, "resError")

ResError == \E i \in DOMAIN execs, name \in StreamErrors : ResErrorOf(i, name)

\* 'error' on the gunzip transform res is piped into.
GunzipErrorOf(i, name) ==
  /\ execs[i].res.received
  /\ execs[i].res.gzip
  /\ "data" \in execs[i].listening
  /\ StreamError(i, "gunzip.error", name, "gunzipError")

GunzipError == \E i \in DOMAIN execs, name \in GunzipErrors : GunzipErrorOf(i, name)

\* Mutant of onTimeout: the callback aborts the request and leaves the
\* rejection to the 'error' event the abort may cause.
onTimeoutAbortOnly(r, e, t) ==
  [e EXCEPT !.timer = "fired", !.timeoutHandle = 0, !.req.aborted = TRUE]

\* The setTimeout callback of _registerTimeout.
onTimeout(r, e, t) ==
  LET e1 == [e EXCEPT !.timer = "fired", !.timeoutHandle = 0,
                      !.req.aborted = TRUE]
  IN reject(e1, IF r = "yaquest" THEN NewError(TimeoutMessage(t))
                ELSE createError(TimeoutMessage(t), Undefined), "timeout")

TimerFireOf(i) ==
  /\ Idle
  /\ execs[i].timer = "armed"
  /\ Update(i, onTimeout(rev, execs[i], this))
  /\ this' = IF rev = "part_000" THEN [this EXCEPT !._timeoutHandle = 0] ELSE this
  /\ UNCHANGED <<rev, server, calls, awaited, ret, uncaught>>

TimerFire == \E i \in DOMAIN execs : TimerFireOf(i)

----------------------------------------------------------------------------
(* The continuation chained in _execute: .then(res => ...).catch(err => ...) *)

\* The handle _clearTimeout looks at: ctx.timeoutHandle or this._timeoutHandle.
HandleOf(r, e, t) == IF r = "yaquest" THEN e.timeoutHandle ELSE t._timeoutHandle

\* clearTimeout(handle) on the timers: an armed timer is cancelled, a fired
\* or cancelled one is left as it is.
clearTimeout(es, h) ==
  IF h # 0 /\ es[h].timer = "armed" THEN [es EXCEPT ![h].timer = "cleared"] ELSE es

\* Mutant of clearTimeoutOf: one timer slot for the whole Request, so that a
\* settlement cancels every timer armed from it.
clearTimeoutAll(r, es, i, t) ==
  [k \in DOMAIN es |->
     [es[k] EXCEPT !.timer = IF @ = "armed" THEN "cleared" ELSE @,
                   !.timeoutHandle = 0]]

\* Mutant of clearTimeoutOf: the continuation forgets to cancel the timer.
clearTimeoutSkipped(r, es, i, t) == es

\* _clearTimeout: cancel the timer the handle names and null the handle.
clearTimeoutOf(r, es, i, t) ==
  LET h == HandleOf(r, es[i], t)
  IN IF h # 0
     THEN [clearTimeout(es, h) EXCEPT ![i].timeoutHandle = 0]
     ELSE es

Truthy(v) ==
  /\ v.kind \notin {"undefined", "null"}
  /\ ~(v.kind = "json" /\ v.depth = 0 /\ v.num = 0)

\* Mutant of annotate: err.res is not attached.
annotateNoRes(r, e) == [e.err EXCEPT !.req = "ref"]

\* The annotations of the catch continuation: err.req, err.res and, in
\* src/yaquest.js, err.status and err.data.
annotate(r, e) ==
  [e.err EXCEPT
     !.req = "ref",
     !.res = IF e.res.received THEN "ref" ELSE Null,
     !.status = IF r # "yaquest" THEN @
                ELSE IF e.res.received /\ e.res.status > 0 THEN e.res.status
                ELSE 0,
     !.data = IF r # "yaquest" THEN @
              ELSE IF e.res.received /\ Truthy(e.res.body) THEN e.res.body
              ELSE NullVal]

\* The promise _execute() returns, once its continuation has run.
Returned(e) ==
  [NoPromise EXCEPT !.state = e.promise,
                    !._value = IF e.promise = "fulfilled" THEN "res" ELSE "err"]

\* The continuation delivers the outcome; the reactions reflect() chained on
\* the returned promise run right after it.
settle(r, e) ==
  LET e1 == IF e.observer = "reflect"
            THEN [e EXCEPT !.reflected = reflect(Returned(e))] ELSE e
  IN IF e.promise = "fulfilled" THEN [e1 EXCEPT !.result = "fulfilled"]
     ELSE [e1 EXCEPT !.result = "rejected", !.err = annotate(r, e)]

Continuation ==
  /\ jobs # <<>>
  /\ ~uncaught
  /\ LET i == Head(jobs)
         es == clearTimeoutOf(rev, execs, i, this)
     IN /\ execs' = [es EXCEPT ![i] = settle(rev, es[i])]
        /\ this' = IF rev = "part_000" /\ this._timeoutHandle # 0
                   THEN [this EXCEPT !._timeoutHandle = 0] ELSE this
  /\ jobs' = Tail(jobs)
  /\ UNCHANGED <<rev, server, calls, awaited, ret, uncaught>>

----------------------------------------------------------------------------
(* Specifications *)

StatusCodes == {0, 199, 200, 299, 300, 404}

Chunks == {<<"1">>, <<"[", "]">>, <<"]">>}

RECURSIVE SeqsUpTo(_, _)
SeqsUpTo(S, n) ==
  IF n = 0 THEN {<<>>}
  ELSE SeqsUpTo(S, n - 1)
       \cup {Append(s, x) : s \in {q \in SeqsUpTo(S, n - 1) : Len(q) = n - 1}, x \in S}

Servers ==
  [statusCode : StatusCodes, gzip : BOOLEAN, chunks : SeqsUpTo(Chunks, MaxChunks)]

\* yaquest.get(url) ... yaquest.delete(url): new Request().<method>().url(url)
Factory(m, u) == url(setMethod(NewRequest, m), u)

InitWith(requests, servers) ==
  /\ rev \in Revisions
  /\ this \in requests
  /\ server \in servers
  /\ execs = <<>>
  /\ jobs = <<>>
  /\ calls = 0
  /\ awaited = 0
  /\ ret = RetThis
  /\ uncaught = FALSE

\* One synchronous run of caller code on a fresh Request: any builder calls
\* and then()/catch()/reflect() calls, before the event loop delivers an event.
Init ==
  InitWith({NewRequest},
           {s \in Servers : s.statusCode = 200 /\ s.chunks = <<<<"[", "]">>>>})

Next ==
  \/ Url \/ SetMethod \/ Binary \/ Send \/ Set \/ Query \/ Auth \/ Timeout
  \/ Agent \/ ToStringCall
  \/ Then \/ Catch \/ Reflect

Spec == Init /\ [][Next]_vars

\* One execution of a Request built by the factory functions, against every
\* endpoint; binary() and timeout() may still be called while it runs.
InitEngine ==
  InitWith({Factory("GET", u) : u \in {p \in ParsedUrls : p.search = <<>>}}, Servers)

FirstThen == execs = <<>> /\ Then

FirstCatch == execs = <<>> /\ Catch

NextEngine ==
  \/ Binary \/ Timeout
  \/ FirstThen \/ FirstCatch
  \/ ReqError \/ Response \/ Data \/ End \/ ResError \/ GunzipError \/ TimerFire
  \/ Continuation

SpecEngine == InitEngine /\ [][NextEngine]_vars

\* One execution of a Request built by any factory function for any URL,
\* with query(), timeout() and method calls before and while it runs, against
\* one endpoint.
InitTimeout ==
  InitWith({Factory(m, u) : m \in Methods, u \in ParsedUrls},
           {s \in Servers : s.statusCode = 200 /\ ~s.gzip /\ s.chunks = <<>>})

NextTimeout ==
  \/ Query \/ Timeout \/ SetMethod
  \/ FirstThen \/ FirstCatch
  \/ ReqError \/ Response \/ End \/ TimerFire
  \/ Continuation

SpecTimeout == InitTimeout /\ [][NextTimeout]_vars

\* Several executions of one Request built by yaquest.get(url), with the
\* default timeout or timeout(100), against endpoints that answer 200 or 404
\* with an empty body, plain or gzip-encoded.
InitMulti ==
  InitWith({Factory("GET", u) : u \in {p \in ParsedUrls : p.search = <<>>}}
             \cup {timeout(Factory("GET", u), 100) :
                     u \in {p \in ParsedUrls : p.search = <<>>}},
           {s \in Servers : s.statusCode \in {200, 404} /\ s.chunks = <<>>})

NextMulti ==
  \/ Then \/ Catch \/ Reflect
  \/ ReqError \/ Response \/ End \/ ResError \/ GunzipError \/ TimerFire
  \/ Continuation

SpecMulti == InitMulti /\ [][NextMulti]_vars

\* The same runs under the scheduling of the event loop: a pending promise
\* reaction is run, and a timer that stays armed fires.  Nothing obliges the
\* transport to deliver a response or an error.
SpecMultiFair ==
  /\ SpecMulti
  /\ WF_vars(Continuation)
  /\ \A i \in 1..MaxExec : WF_vars(i \in DOMAIN execs /\ TimerFireOf(i))

----------------------------------------------------------------------------
(* Properties *)

SamePayload(a, b) == a.name = b.name /\ a.message = b.message /\ a.cause = b.cause

\* C1: exactly-once settlement.  Once the promise of an execution is
\* settled, no later event (request error, stream error, gunzip error, 'end',
\* timer, exception of the response handler) changes whether it is fulfilled
\* or rejected, which event settled it, or the error it was rejected with;
\* and the outcome delivered to the caller is the recorded one and is
\* delivered once.
C1_SettledOnce ==
  [][\A i \in DOMAIN execs :
       /\ Settled(execs[i]) =>
            /\ execs'[i].promise = execs[i].promise
            /\ execs'[i].by = execs[i].by
            /\ SamePayload(execs'[i].err, execs[i].err)
       /\ execs'[i].result \in {"pending", execs'[i].promise}
       /\ execs[i].result # "pending" => execs'[i].result = execs[i].result
    ]_vars

\* The timer settled the execution and the 'end' listener ran afterwards.
C1_Witness ==
  \E i \in DOMAIN execs :
    /\ execs[i].by = "timeout"
    /\ execs[i].ended
    /\ execs[i].result = "rejected"

\* C2: in src/yaquest.js, once an execution has settled and its continuation
\* has run, ctx.timeoutHandle is null and the timer is not armed; the timer
\* callback never runs for a settled execution; and a timer that was never
\* armed or has fired is left as it is by the cancellation.
C2_TimerCancelled ==
  [][rev = "yaquest" =>
       \A i \in DOMAIN execs :
         /\ execs'[i].result # "pending" =>
              execs'[i].timeoutHandle = 0 /\ execs'[i].timer # "armed"
         /\ Settled(execs[i]) => ~TimerFireOf(i)
         /\ execs[i].timer \in {"none", "fired"} =>
              /\ execs'[i].timer = execs[i].timer
              /\ execs'[i].timeoutHandle = execs[i].timeoutHandle
    ]_vars

\* A transport error settled the execution while its timer was armed, and
\* the continuation cancelled the timer.
C2_Witness ==
  /\ rev = "yaquest"
  /\ \E i \in DOMAIN execs :
       /\ execs[i].by = "reqError"
       /\ execs[i].result = "rejected"
       /\ execs[i].timer = "cleared"

\* "request <METHOD> <scheme>//<host><path> timed out after <N> ms" for the
\* Request t, spelled out from its fields.
ExpectedTimeoutMessage(t) ==
  <<"request ", t.method, " ", t.protocol, "//", t.hostname>>
  \o EscapePath(t.path)
  \o <<" timed out after ">> \o DecStr(t._timeout) \o <<" ms">>

\* C3: when the timer of an unsettled execution fires, the request is
\* aborted and the execution is rejected with the timeout message: upper-case
\* method, scheme, host and path of the Request, no port, no query()
\* parameter, and the timeout configured on the Request; afterwards no
\* event replaces that outcome.
C3_TimeoutFailure ==
  [][\A i \in DOMAIN execs :
       /\ (TimerFireOf(i) /\ ~Settled(execs[i])) =>
            /\ execs'[i].req.aborted
            /\ execs'[i].promise = "rejected"
            /\ execs'[i].by = "timeout"
            /\ execs'[i].err.message = ExpectedTimeoutMessage(this)
            /\ this.method \in Methods
            /\ \A k \in DOMAIN execs'[i].err.message :
                 execs'[i].err.message[k] \notin
                   QueryNames \cup QueryValues \cup {this.port, "?", "&", "="}
       /\ execs[i].by = "timeout" =>
            /\ execs'[i].promise = "rejected"
            /\ execs'[i].by = "timeout"
            /\ execs'[i].err.message = execs[i].err.message
    ]_vars

\* POST http://localhost:56247/foo with query parameters and timeout(100)
\* timed out: the message of the 'timeout' test.
C3_Witness ==
  /\ this._query # <<>>
  /\ this.port = "56247"
  /\ \E i \in DOMAIN execs :
       /\ execs[i].by = "timeout"
       /\ execs[i].req.aborted
       /\ execs[i].result = "rejected"
       /\ execs[i].err.message =
            <<"request ", "POST", " ", "http:", "//", "localhost", "/foo",
              " timed out after ", "1", "0", "0", " ms">>

\* C4: a request 'error' event on an unsettled execution rejects it with an
\* error whose message is not the timeout message and that is, or carries as
\* its cause, the emitted error; on an execution the timer has settled the
\* event changes nothing.
C4_TransportError ==
  [][\A i \in DOMAIN execs : \A name \in TransportErrors :
       /\ (ReqErrorOf(i, name) /\ ~Settled(execs[i])) =>
            /\ execs'[i].promise = "rejected"
            /\ execs'[i].by = "reqError"
            /\ execs'[i].err.message # TimeoutMessage(this)
            /\ execs'[i].err.message # <<>>
            /\ name \in {execs'[i].err.name, execs'[i].err.cause}
       /\ (ReqErrorOf(i, name) /\ execs[i].by = "timeout") => UNCHANGED vars
    ]_vars

C4_Witness ==
  \E i \in DOMAIN execs :
    /\ execs[i].by = "reqError"
    /\ execs[i].result = "rejected"
    /\ "ECONNRESET" \in {execs[i].err.name, execs[i].err.cause}
    /\ execs[i].timer = "cleared"

\* C5: execution happens at most once per Request: however many times
\* then()/catch()/reflect() are called on a Request with method and URL set,
\* one transport request is opened and one timer armed.
C5_ExecutesAtMostOnce ==
  (awaited >= 1 /\ this.method # Undefined /\ this.hostname # Undefined) =>
    Len(execs) = 1

\* C6: lazy execution.  The constructor and the builder calls open no
\* request, write no body and arm no timer: every execution (request, body
\* written, timer) was started by a call of then()/catch()/reflect().
C6_LazyExecution == Len(execs) = awaited

\* send() and timeout(100) have been called and nothing has been opened.
C6_Witness ==
  /\ calls >= 2
  /\ this._body.kind = "buffer"
  /\ this._timeout = 100
  /\ awaited = 0
  /\ execs = <<>>

InRange(status) == 200 <= status /\ status < 300

\* C7 as stated: at stream end the status is the transport's status code or
\* 500, the execution is fulfilled exactly for 200 <= status < 300, and is
\* otherwise rejected with the standard reason phrase of the status.
C7_ReasonPhraseAlways ==
  \A i \in DOMAIN execs :
    execs[i].by = "end" =>
      /\ execs[i].res.status =
           (IF execs[i].res.statusCode = 0 THEN 500 ELSE execs[i].res.statusCode)
      /\ execs[i].promise = "fulfilled" <=> InRange(execs[i].res.status)
      /\ execs[i].promise = "rejected" =>
           /\ STATUS_CODES(execs[i].res.status) # Undefined
           /\ execs[i].err.message = <<STATUS_CODES(execs[i].res.status)>>

\* C7 amended: as above, but the message is the standard reason phrase when
\* http.STATUS_CODES has one for the status and the empty string when it has
\* none (199).
C7_StatusClassification ==
  \A i \in DOMAIN execs :
    execs[i].by = "end" =>
      /\ execs[i].res.status =
           (IF execs[i].res.statusCode = 0 THEN 500 ELSE execs[i].res.statusCode)
      /\ execs[i].promise = "fulfilled" <=> InRange(execs[i].res.status)
      /\ execs[i].promise = "rejected" =>
           execs[i].err.message =
             (IF STATUS_CODES(execs[i].res.status) = Undefined THEN <<>>
              ELSE <<STATUS_CODES(execs[i].res.status)>>)

\* Status 199 ended the stream: a failure with an empty message.
C7_Witness ==
  \E i \in DOMAIN execs :
    /\ execs[i].by = "end"
    /\ execs[i].res.status = 199
    /\ execs[i].result = "rejected"
    /\ execs[i].err.message = <<>>

\* C8: the continuation that delivers a rejection attaches err.req (the
\* request of the execution) and err.res (the response if it had arrived
\* when the execution settled, null otherwise) and delivers a rejection; a
\* fulfilment is delivered as a fulfilment; a delivered status failure has
\* the status and body of its response set; nothing changes the
\* references afterwards.
C8_FailureCarriesReqRes ==
  [][\A i \in DOMAIN execs :
       /\ (jobs # <<>> /\ Head(jobs) = i /\ execs[i].promise = "rejected") =>
            /\ execs'[i].result = "rejected"
            /\ execs'[i].err.req = "ref"
            /\ execs'[i].err.res = (IF execs[i].res.received THEN "ref" ELSE Null)
       /\ (jobs # <<>> /\ Head(jobs) = i /\ execs[i].promise = "fulfilled") =>
            execs'[i].result = "fulfilled"
       /\ (execs'[i].result = "rejected" /\ execs'[i].by = "end") =>
            /\ execs'[i].err.res = "ref"
            /\ execs'[i].res.status > 0
            /\ execs'[i].res.body.kind \in {"buffer", "json"}
       /\ execs[i].result # "pending" =>
            /\ execs'[i].result = execs[i].result
            /\ execs'[i].err.req = execs[i].err.req
            /\ execs'[i].err.res = execs[i].err.res
    ]_vars

\* A 404 delivered with its response attached.
C8_Witness ==
  \E i \in DOMAIN execs :
    /\ execs[i].result = "rejected"
    /\ execs[i].by = "end"
    /\ execs[i].res.status = 404
    /\ execs[i].err.req = "ref"
    /\ execs[i].err.res = "ref"

\* C9: after 'end', the body is the raw bytes when binary mode was set or
\* no byte arrived; otherwise it is the parsed JSON value when the bytes are
\* JSON text and the raw bytes when they are not; and whether 'end' fulfils
\* or rejects depends on the status code alone.
C9_JsonNeverDecides ==
  \A i \in DOMAIN execs :
    execs[i].ended =>
      LET bytes == Concat(execs[i].data)
          body == execs[i].res.body
      IN /\ (execs[i].res.isBinary = "true" \/ bytes = <<>>) => body = BufferVal(bytes)
         /\ body.kind \in {"buffer", "json"}
         /\ body.kind = "buffer" => body.bytes = bytes
         /\ body.kind = "json" => JSONStringify(body).bytes = bytes
         /\ (body.kind = "buffer" /\ execs[i].res.isBinary = "false" /\ bytes # <<>>) =>
              JSONParse(bytes).kind = "throw"
         /\ execs[i].by = "end" =>
              (execs[i].promise = "fulfilled" <=> InRange(execs[i].res.status))

\* Bytes that are not JSON text, binary mode off, status in range: success
\* with the raw bytes as body.
C9_Witness ==
  \E i \in DOMAIN execs :
    /\ execs[i].ended
    /\ execs[i].res.isBinary = "false"
    /\ execs[i].res.body.kind = "buffer"
    /\ execs[i].res.body.bytes # <<>>
    /\ execs[i].result = "fulfilled"

\* C10: in src/yaquest.js an 'error' event of the response stream or of the
\* gunzip transform on an unsettled execution rejects it with the emitted
\* error and queues the same continuation as a request error; the event is
\* never left without a listener.
C10_StreamErrorRejects ==
  [][rev = "yaquest" =>
       \A i \in DOMAIN execs : \A name \in StreamErrors \cup GunzipErrors :
         ((ResErrorOf(i, name) \/ GunzipErrorOf(i, name)) /\ ~Settled(execs[i])) =>
           /\ execs'[i].promise = "rejected"
           /\ execs'[i].err.name = name
           /\ execs'[i].by \in {"resError", "gunzipError"}
           /\ jobs' = Append(jobs, i)
           /\ ~uncaught'
    ]_vars

\* A corrupt gzip stream was delivered as a failure.
C10_Witness ==
  /\ rev = "yaquest"
  /\ \E i \in DOMAIN execs :
       /\ execs[i].by = "gunzipError"
       /\ execs[i].err.name = "Z_DATA_ERROR"
       /\ execs[i].result = "rejected"
       /\ execs[i].timer = "cleared"

\* The values accumulated for the name n on the Request t.
ValuesOf(t, n) ==
  IF \E k \in 1..Len(t._query) : t._query[k].name = n
  THEN t._query[CHOOSE k \in 1..Len(t._query) : t._query[k].name = n].values
  ELSE <<>>

\* All name=value pairs of the query q, names in insertion order and the
\* values of a name in call order, joined by '&'.
RECURSIVE QueryPairs(_)
QueryPairs(q) ==
  IF q = <<>> THEN <<>>
  ELSE [k \in 1..Len(q[1].values) |-> <<q[1].name, "=", q[1].values[k]>>]
       \o QueryPairs(Tail(q))

RECURSIVE JoinPairs(_)
JoinPairs(ps) ==
  IF ps = <<>> THEN <<>>
  ELSE ps[1] \o (IF Len(ps) > 1 THEN <<"&">> \o JoinPairs(Tail(ps)) ELSE <<>>)

\* C11: every query(name, value) call returns the Request with value
\* appended to the values of name and the values of the other names left as
\* they were; and the path of a request opened by src/yaquest.js is the path
\* of the Request, followed by '?' and the name=value pairs (one per value, in
\* call order) exactly when some parameter exists.
C11_QueryAccumulation ==
  [][/\ \A n \in QueryNames, v \in QueryValues :
          QueryOf(n, v) =>
            /\ ret'.kind = "this"
            /\ ValuesOf(this', n) = Append(ValuesOf(this, n), v)
            /\ \A m \in QueryNames \ {n} : ValuesOf(this', m) = ValuesOf(this, m)
     /\ (rev = "yaquest" /\ awaited' = awaited + 1) =>
          execs'[Len(execs')].req.path =
            (IF this._query = <<>>
             THEN (IF this.path = <<Undefined>> THEN <<"/">> ELSE this.path)
             ELSE this.path \o <<"?">> \o JoinPairs(QueryPairs(this._query)))
    ]_vars

\* C12: in src/yaquest.js the executions of one Request are independent:
\* the timer handle of execution i is its own; a step (an event, a timer, a
\* continuation, a further then()/catch()) changes at most one execution,
\* and the continuation of an execution changes that execution only, so the
\* request, timer and promise of every other execution stay as they were.
C12_IndependentExecutions ==
  [][rev = "yaquest" =>
       /\ \A i \in DOMAIN execs' : execs'[i].timeoutHandle \in {0, i}
       /\ \A i \in DOMAIN execs : \A j \in DOMAIN execs \ {i} :
            execs'[i] # execs[i] => execs'[j] = execs[j]
       /\ (jobs # <<>> /\ jobs' = Tail(jobs)) =>
            \A j \in DOMAIN execs \ {Head(jobs)} : execs'[j] = execs[j]
       /\ \A i \in DOMAIN execs :
            TimerFireOf(i) => \A j \in DOMAIN execs \ {i} : execs'[j] = execs[j]
    ]_vars

\* Two executions of one Request: the first timed out, was aborted and
\* delivered its failure, the second is still pending with its timer armed.
C12_Witness ==
  /\ rev = "yaquest"
  /\ Len(execs) >= 2
  /\ execs[1].by = "timeout" /\ execs[1].req.aborted /\ execs[1].result = "rejected"
  /\ execs[2].promise = "pending" /\ execs[2].timer = "armed"
  /\ execs[2].timeoutHandle = 2 /\ ~execs[2].req.aborted

\* C13: a then()/catch()/reflect() call on a Request whose method or URL
\* was never set throws synchronously: it returns no promise, opens no
\* request and arms no timer.
C13_FailFastConfiguration ==
  [][(awaited' = awaited + 1
      /\ (this.method = Undefined \/ this.hostname = Undefined)) =>
       /\ ret'.kind = "throw"
       /\ execs' = execs
    ]_vars

\* C14: a send(v) call whose value cannot be JSON-encoded throws inside
\* send(): it returns nothing, opens no request, and leaves the Request as
\* it was, in particular the stored body and the Content-Type and
\* Content-Length headers.
C14_SendThrowLeavesDescriptor ==
  [][\A b \in SendInputs :
       (SendOf(b) /\ sendThrows(b)) =>
         /\ ret'.kind = "throw"
         /\ execs' = execs
         /\ this'._body = this._body
         /\ this'.headers = this.headers
         /\ this' = this
    ]_vars

\* send(<Buffer>) succeeded and a later send() threw: the body and the
\* headers of the first call are still there.
C14_Witness ==
  /\ ret.kind = "throw"
  /\ calls = 2
  /\ this._query = <<>>
  /\ this._body = BufferVal(<<"1", "]">>)
  /\ this.headers["Content-Type"] = <<"application/octet-stream">>
  /\ this.headers["Content-Length"] = <<"2">>
  /\ execs = <<>>

\* C15: when send(b) returns, Content-Length is the byte length of the
\* stored body and Content-Type is application/octet-stream for a Buffer and
\* application/json otherwise, whatever earlier send() or set() calls wrote.
C15_SendSetsHeaders ==
  [][\A b \in SendInputs :
       (SendOf(b) /\ ~sendThrows(b)) =>
         /\ ret'.kind = "this"
         /\ this'.headers["Content-Length"] = DecStr(Len(this'._body.bytes))
         /\ this'.headers["Content-Type"] =
              (IF b.kind = "buffer" THEN <<"application/octet-stream">>
               ELSE <<"application/json">>)
         /\ this'._body.kind = "buffer"
         /\ b.kind = "buffer" => this'._body = b
    ]_vars

\* Two calls, the second one send([1]): three bytes of JSON text.
C15_Witness ==
  /\ ret.kind = "this"
  /\ calls = 2
  /\ this._body = BufferVal(<<"[", "1", "]">>)
  /\ this.headers["Content-Type"] = <<"application/json">>
  /\ this.headers["Content-Length"] = <<"3">>

\* C16: in src/unnamed/part_000 the promise reflect() returns is never
\* rejected; it is pending as long as the execution's outcome is not
\* delivered, and then fulfilled with a PromiseInspection: isFulfilled() and
\* value() = the response after a Success, isRejected() and reason() = the
\* error after a Failure; isFulfilled() and isRejected() are opposite.
C16_ReflectNeverRejects ==
  \A i \in DOMAIN execs :
    (rev = "part_000" /\ execs[i].observer = "reflect") =>
      LET p == execs[i].reflected
      IN /\ p.state # "rejected"
         /\ p.state = "pending" <=> execs[i].result = "pending"
         /\ p.state = "fulfilled" =>
              /\ p.inspection
              /\ isFulfilled(p) # isRejected(p)
              /\ isFulfilled(p) <=> execs[i].result = "fulfilled"
              /\ isFulfilled(p) => value(p) = "res"
              /\ isRejected(p) => reason(p) = "err"

\* reflect() on a request that timed out: fulfilled with a rejected
\* inspection.
C16_Witness ==
  /\ rev = "part_000"
  /\ \E i \in DOMAIN execs :
       /\ execs[i].observer = "reflect"
       /\ execs[i].by = "timeout"
       /\ execs[i].result = "rejected"
       /\ execs[i].reflected.state = "fulfilled"
       /\ isRejected(execs[i].reflected)

\* C17: abort is called on the request of an execution only by the timer
\* callback of that execution: a request that has been aborted belongs to
\* an execution whose timer fired, and the step that aborts it is that timer.
C17_AbortOnlyFromTimer ==
  [][\A i \in DOMAIN execs' :
       /\ execs'[i].req.aborted => execs'[i].timer = "fired"
       /\ (i \in DOMAIN execs /\ execs'[i].req.aborted /\ ~execs[i].req.aborted) =>
            TimerFireOf(i)
    ]_vars

\* One execution timed out and was aborted; another one failed with a
\* transport error and was not.
C17_Witness ==
  \E i, j \in DOMAIN execs :
    /\ execs[i].by = "timeout" /\ execs[i].req.aborted
    /\ execs[j].by = "reqError" /\ execs[j].result = "rejected"
    /\ ~execs[j].req.aborted

\* C18: an execution started while the timeout of the Request is 0 has no
\* timer: none is armed, none fires, the request is not aborted and the
\* execution is never rejected by a timeout; it is pending until a request
\* error, the response, a stream error or 'end' settles it.
C18_NoTimerWhenZero ==
  [][\A i \in DOMAIN execs' :
       execs'[i].delay = 0 =>
         /\ execs'[i].timer = "none"
         /\ execs'[i].timeoutHandle = 0
         /\ ~execs'[i].req.aborted
         /\ execs'[i].by \in {"none", "reqError", "thrown", "resError",
                               "gunzipError", "end"}
         /\ execs'[i].by = "none" <=> execs'[i].promise = "pending"
         /\ i \in DOMAIN execs => ~TimerFireOf(i)
    ]_vars

\* timeout(0), then a successful response.
C18_Witness ==
  \E i \in DOMAIN execs :
    /\ execs[i].delay = 0
    /\ execs[i].timer = "none"
    /\ execs[i].by = "end"
    /\ execs[i].result = "fulfilled"

\* C19: in src/unnamed/part_000 the continuation of an execution cancels
\* the timer of that execution and leaves the timers of the other
\* executions of the Request as they are, and no timer callback runs for
\* an execution that has settled.
C19_TimerOwnedByExecution ==
  [][rev = "part_000" =>
       /\ (jobs # <<>> /\ jobs' = Tail(jobs)) =>
            /\ execs'[Head(jobs)].timer # "armed"
            /\ \A j \in DOMAIN execs \ {Head(jobs)} :
                 execs'[j].timer = execs[j].timer
       /\ \A i \in DOMAIN execs : Settled(execs[i]) => ~TimerFireOf(i)
    ]_vars

\* C20: in src/yaquest.js every execution started with a timeout greater
\* than 0, alone or next to other executions of the same Request, eventually
\* has its outcome delivered, whatever the transport delivers, provided an
\* armed timer that is not cancelled eventually fires.
C20_EventuallySettles ==
  \A i \in 1..MaxExec :
    (rev = "yaquest" /\ Len(execs) >= i /\ execs[i].delay > 0)
      ~> (Len(execs) >= i /\ execs[i].result # "pending")

\* Two executions of one Request to which the transport delivered nothing:
\* both were settled by their timers.
C20_Witness ==
  /\ rev = "yaquest"
  /\ Len(execs) >= 2
  /\ \A i \in {1, 2} :
       /\ execs[i].delay > 0
       /\ ~execs[i].res.received
       /\ execs[i].by = "timeout"
       /\ execs[i].result = "rejected"

\* C21: in src/unnamed/part_000 an 'error' event of the response stream or
\* of the gunzip transform on an unsettled execution finds a listener and
\* rejects the execution, queueing the same continuation as a request error.
C21_StreamErrorRouted ==
  [][rev = "part_000" =>
       \A i \in DOMAIN execs : \A name \in StreamErrors \cup GunzipErrors :
         ((ResErrorOf(i, name) \/ GunzipErrorOf(i, name)) /\ ~Settled(execs[i])) =>
           /\ ~uncaught'
           /\ execs'[i].promise = "rejected"
           /\ execs'[i].by \in {"resError", "gunzipError"}
           /\ jobs' = Append(jobs, i)
    ]_vars

\* C22: an execution is fulfilled only by the 'end' listener of its response
\* stream; when 'end' has run the body is built from the concatenation, in
\* arrival order, of the chunks pushed before it (the bytes themselves, or
\* the JSON value they spell); and once the execution is settled no step
\* changes status, body or isBinary of its response.
C22_ResponseImmutableAfterSettlement ==
  [][\A i \in DOMAIN execs :
       /\ execs'[i].promise = "fulfilled" =>
            execs'[i].ended /\ execs'[i].by = "end"
       /\ (execs'[i].ended /\ ~execs[i].ended) =>
            /\ execs'[i].data = execs[i].data
            /\ execs'[i].res.body.kind \in {"buffer", "json"}
            /\ execs'[i].res.body.kind = "buffer" =>
                 execs'[i].res.body.bytes = Concat(execs[i].data)
            /\ execs'[i].res.body.kind = "json" =>
                 JSONStringify(execs'[i].res.body).bytes = Concat(execs[i].data)
       /\ Settled(execs[i]) =>
            /\ execs'[i].res.status = execs[i].res.status
            /\ execs'[i].res.body = execs[i].res.body
            /\ execs'[i].res.isBinary = execs[i].res.isBinary
    ]_vars

\* C23: in src/yaquest.js a then()/catch() call, like every step that is not
\* a builder call, leaves the Request as it was (method, URL fields, headers,
\* body, query, timeout); and a then()/catch() that directly follows another
\* one opens a request with the same path, the query string appended once.
C23_ExecuteLeavesDescriptor ==
  [][rev = "yaquest" =>
       /\ calls' = calls => this' = this
       /\ awaited' = awaited + 1 =>
            /\ this'.method = this.method /\ this'.path = this.path
            /\ this'.headers = this.headers /\ this'._body = this._body
            /\ this'._query = this._query /\ this'._timeout = this._timeout
       /\ (awaited' = awaited + 1 /\ ret.kind = "promise" /\ execs # <<>>) =>
            /\ execs'[Len(execs')].req.path = execs[Len(execs)].req.path
            /\ Cardinality({k \in DOMAIN execs'[Len(execs')].req.path :
                              execs'[Len(execs')].req.path[k] = "?"})
                 <= Cardinality({k \in DOMAIN this.path : this.path[k] = "?"}) + 1
    ]_vars

\* url(), query('q1', 'v1'), then two executions: both asked for /foo?q1=v1.
C23_Witness ==
  /\ rev = "yaquest"
  /\ Len(execs) = 2
  /\ this.path = <<"/foo">>
  /\ this._query = <<[name |-> "q1", values |-> <<"v1">>, inherited |-> FALSE]>>
  /\ execs[1].req.path = <<"/foo", "?", "q1", "=", "v1">>
  /\ execs[2].req.path = execs[1].req.path

====
